---- MODULE Spec2Model ----
(***************************************************************************)
(* Model of src/services/smtp.js (SmtpService): the notification dispatch  *)
(* pipeline sendNotification / resendNotification / sendEmail, with its    *)
(* template lookup, event data assemblers, attachment resolver and mail    *)
(* transport, and the price formatter humanPrice_.                         *)
(***************************************************************************)
EXTENDS Integers, Sequences, FiniteSets, TLC

VARIABLES
    options_,      \* this.options_ as built by the constructor
    pc,            \* position of the running call: idle / fetchData /
                   \* fetchAttachments / send / sending / done
    op,            \* which method is running
    args,          \* the arguments of the running call
    templateName,  \* local templateName
    data,          \* local data (render context)
    attachments,   \* local attachments
    sendOptions,   \* local sendOptions
    result,        \* the record returned to the caller, NoResult if none
    thrown,        \* the error raised to the caller, "none" if none
    trace,         \* collaborator invocations of the running call, in order
    settled,       \* how the mail send settled: none / resolved / rejected
    outbox,        \* the options email.send was invoked with, Undef if not
    providerDocs,  \* what retrieveDocuments answers in the running call
    served,        \* number of calls that have returned to their caller
    amount,        \* humanPrice_ argument
    currency,      \* humanPrice_ argument
    price,         \* humanPrice_ return value, "" before the call
    aggregate,     \* what the domain services hand to the helper under study
    context,       \* what that helper returns, NotAsked before the call
    calls          \* the calls in flight on one service instance

dispatchVars == <<options_, pc, op, args, templateName, data, attachments,
                  sendOptions, result, thrown, trace, settled, outbox,
                  providerDocs, served>>
priceVars == <<amount, currency, price>>
auxVars == <<aggregate, context, calls>>
vars == <<options_, pc, op, args, templateName, data, attachments,
          sendOptions, result, thrown, trace, settled, outbox,
          providerDocs, served, amount, currency, price,
          aggregate, context, calls>>

(***************************************************************************)
(* JavaScript values.                                                      *)
(***************************************************************************)
Undef == [type |-> "undefined"]
Null == [type |-> "null"]
False == [type |-> "boolean", value |-> FALSE]
Fn == [type |-> "function"]
Str(s) == [type |-> "string", value |-> s]
Obj(f) == [type |-> "object", fields |-> f]
EmptyFields == [k \in {} |-> Undef]
EmptyObj == Obj(EmptyFields)

IsObj(v) == v.type = "object"
\* property access v.k on an object; a missing key reads as undefined
Get(v, k) == IF IsObj(v) /\ k \in DOMAIN v.fields THEN v.fields[k] ELSE Undef
\* property access on undefined or null raises TypeError
CanRead(v) == v.type \notin {"undefined", "null"}
Truthy(v) ==
    CASE v.type = "undefined" -> FALSE
      [] v.type = "null" -> FALSE
      [] v.type = "boolean" -> v.value
      [] v.type = "string" -> v.value # ""
      [] OTHER -> TRUE
\* a || b
Or(a, b) == IF Truthy(a) THEN a ELSE b
\* { ...a, ...b } on field maps
Spread(a, b) ==
    [k \in (DOMAIN a) \cup (DOMAIN b) |-> IF k \in DOMAIN b THEN b[k] ELSE a[k]]

\* completion of a call: a returned value or a raised error
Return(v) == [kind |-> "return", value |-> v]
Throw(e) == [kind |-> "throw", error |-> e]

NoResult == Undef
NotAsked == [kind |-> "none"]

(***************************************************************************)
(* Event names.                                                            *)
(***************************************************************************)
RecognizedEvents ==
    {"order.return_requested", "swap.shipment_created",
     "claim.shipment_created", "order.items_returned", "swap.received",
     "swap.created", "gift_card.created", "order.gift_card_created",
     "order.placed", "order.shipment_created", "order.canceled",
     "user.password_reset", "customer.password_reset", "invite.created",
     "restock-notification.restocked"}
\* an event outside the switch that a caller has mapped to a template
CustomEvent == "custom.event"
\* an event no template map mentions
UnmappedEvent == "unmapped.event"
EventNames == RecognizedEvents \cup {CustomEvent, UnmappedEvent}

(***************************************************************************)
(* Constructor and template lookup.                                        *)
(***************************************************************************)
DefaultOptions ==
    [fromEmail |-> "noreply@medusajs.com",
     transport |-> "sendmail",
     emailTemplatePath |-> "data/emailTemplates",
     templateMap |-> [e \in {"order.placed"} |-> "orderplaced"]]

\* this.options_ = { ...defaults, ...options }
Constructor(options) == Spread(DefaultOptions, options)

\* the collaborators the constructor assigns to this
AssignedServices ==
    {"fulfillmentProviderService_", "storeService_", "lineItemService_",
     "orderService_", "cartService_", "claimService_", "returnService_",
     "swapService_", "fulfillmentService_", "totalsService_",
     "productVariantService_"}

\* options a caller may pass to the constructor
FullTemplateMap == [e \in RecognizedEvents \cup {CustomEvent} |-> "tpl"]
ConstructorOptions ==
    {EmptyFields,
     [templateMap |-> FullTemplateMap],
     [templateMap |-> FullTemplateMap, fromEmail |-> "shop@example.com"]}

getTemplateNameForEvent(opts, eventName) ==
    IF eventName \in DOMAIN opts.templateMap
    THEN Or(Str(opts.templateMap[eventName]), False)
    ELSE False

(***************************************************************************)
(* Event data assemblers.  A world w is what the domain services answer    *)
(* for one dispatch: whether the retrievals resolve, the email stored on   *)
(* the order, whether the return has a shipping method, whether the store  *)
(* has a swap link template, whether the gift card has an order.  Of the   *)
(* assembled context the model keeps the fields the dispatcher and the     *)
(* attachment resolver read: email, return_request, order.                 *)
(***************************************************************************)
OrderEmails == {"customer@example.com"}
Worlds ==
    [lookup : {"ok", "throws"}, email : OrderEmails,
     shipping_method : BOOLEAN, swap_link_template : BOOLEAN,
     gc_order : BOOLEAN]

ShippingMethod ==
    Obj([shipping_option |-> Obj([provider_id |-> Str("webshipper")])])
OrderOf(w) == Obj([email |-> Str(w.email)])
ReturnRequestOf(w) ==
    Obj([shipping_method |-> IF w.shipping_method THEN ShippingMethod ELSE Null,
         shipping_data |-> EmptyObj,
         items |-> EmptyObj])

\* an assembler that destructures its payload, awaits domain retrievals and
\* returns ctx
Retrieved(payload, w, ctx) ==
    IF ~CanRead(payload) THEN Throw("TypeError")
    ELSE IF w.lookup = "throws" THEN Throw("DomainLookupError")
    ELSE Return(ctx)

orderShipmentCreatedData(payload, w) ==
    Retrieved(payload, w, Obj([email |-> Str(w.email), order |-> OrderOf(w)]))

orderCanceledData(payload, w) ==
    Retrieved(payload, w, Obj([email |-> Str(w.email)]))

orderPlacedData(payload, w) ==
    Retrieved(payload, w, Obj([email |-> Str(w.email)]))

gcCreatedData(payload, w) ==
    IF ~CanRead(payload) THEN Throw("TypeError")
    \* this.giftCardService_ is read but never assigned
    ELSE IF "giftCardService_" \notin AssignedServices THEN Throw("TypeError")
    ELSE IF w.lookup = "throws" THEN Throw("DomainLookupError")
    ELSE IF ~w.gc_order THEN Return(Undef)
    \* extractLocale(order): order is not defined in this scope
    ELSE Throw("ReferenceError")

returnRequestedData(payload, w) ==
    Retrieved(payload, w,
              Obj([email |-> Str(w.email),
                   return_request |-> ReturnRequestOf(w),
                   order |-> OrderOf(w)]))

\* store.swap_link_template.replace(...) before the order is retrieved
SwapData(payload, w) ==
    IF ~CanRead(payload) THEN Throw("TypeError")
    ELSE IF w.lookup = "throws" THEN Throw("DomainLookupError")
    ELSE IF ~w.swap_link_template THEN Throw("TypeError")
    ELSE Return(Obj([email |-> Str(w.email),
                     return_request |-> ReturnRequestOf(w),
                     order |-> OrderOf(w)]))

swapReceivedData(payload, w) == SwapData(payload, w)

swapCreatedData(payload, w) == SwapData(payload, w)

itemsReturnedData(payload, w) == returnRequestedData(payload, w)

swapShipmentCreatedData(payload, w) ==
    Retrieved(payload, w, Obj([email |-> Str(w.email), order |-> OrderOf(w)]))

claimShipmentCreatedData(payload, w) ==
    Retrieved(payload, w, Obj([email |-> Str(w.email), order |-> OrderOf(w)]))

restockNotificationData(payload, w) ==
    Retrieved(payload, w,
              Obj([product |-> EmptyObj,
                   variant |-> EmptyObj,
                   variant_id |-> Get(payload, "variant_id"),
                   emails |-> Get(payload, "emails")]))

userPasswordResetData(payload) == Return(payload)

customerPasswordResetData(payload) == Return(payload)

\* { email: data.user_email, ...data }
inviteData(payload) ==
    IF ~CanRead(payload) THEN Throw("TypeError")
    ELSE Return(Obj(Spread([email |-> Get(payload, "user_email")],
                           payload.fields)))

\* a default branch that returns an empty context
PassThrough_Empty(eventData) == Return(EmptyObj)

\* default: return eventData
PassThrough(eventData) == Return(eventData)

fetchData(event, eventData, w) ==
    CASE event = "order.return_requested" -> returnRequestedData(eventData, w)
      [] event = "swap.shipment_created" -> swapShipmentCreatedData(eventData, w)
      [] event = "claim.shipment_created" -> claimShipmentCreatedData(eventData, w)
      [] event = "order.items_returned" -> itemsReturnedData(eventData, w)
      [] event = "swap.received" -> swapReceivedData(eventData, w)
      [] event = "swap.created" -> swapCreatedData(eventData, w)
      [] event = "gift_card.created" -> gcCreatedData(eventData, w)
      [] event = "order.gift_card_created" -> gcCreatedData(eventData, w)
      [] event = "order.placed" -> orderPlacedData(eventData, w)
      [] event = "order.shipment_created" -> orderShipmentCreatedData(eventData, w)
      [] event = "order.canceled" -> orderCanceledData(eventData, w)
      [] event = "user.password_reset" -> userPasswordResetData(eventData)
      [] event = "customer.password_reset" -> customerPasswordResetData(eventData)
      [] event = "invite.created" -> inviteData(eventData)
      [] event = "restock-notification.restocked" ->
             restockNotificationData(eventData, w)
      [] OTHER -> PassThrough(eventData)

(***************************************************************************)
(* Attachment resolver.  docs is what retrieveDocuments answers and        *)
(* invoice what createReturnInvoice answers: a completion each.            *)
(***************************************************************************)
\* only the first document wrapped
LabelAttachments_FirstOnly(lbl) ==
    IF lbl = <<>> THEN <<>>
    ELSE <<[name |-> "return-label", base64 |-> Head(lbl).base_64,
            type |-> Head(lbl).type]>>

RECURSIVE LabelAttachments(_)
\* lbl.map((d) => ({ name: 'return-label', base64: d.base_64, type: d.type }))
LabelAttachments(lbl) ==
    IF lbl = <<>> THEN <<>>
    ELSE <<[name |-> "return-label", base64 |-> Head(lbl).base_64,
            type |-> Head(lbl).type]>> \o LabelAttachments(Tail(lbl))

InvoiceAttachment(base64) ==
    [name |-> "invoice", base64 |-> base64, type |-> "application/pdf"]

HasInvoiceCapability(attachmentGenerator) ==
    /\ Truthy(attachmentGenerator)
    /\ IsObj(attachmentGenerator)
    /\ Truthy(Get(attachmentGenerator, "createReturnInvoice"))

\* the second half of the return/swap case, after the labels
WithInvoice(labels, attachmentGenerator, invoice) ==
    IF HasInvoiceCapability(attachmentGenerator)
    THEN IF invoice.kind = "throw" THEN invoice
         ELSE Return(labels \o <<InvoiceAttachment(invoice.value)>>)
    ELSE Return(labels)

fetchAttachments(event, d, attachmentGenerator, docs, invoice) ==
    IF event \in {"swap.created", "order.return_requested"}
    THEN IF ~CanRead(d) THEN Throw("TypeError")
         ELSE IF ~IsObj(d) \/ ~CanRead(Get(d, "return_request"))
         THEN Throw("TypeError")
         ELSE LET rr == Get(d, "return_request")
                  shipping_method == IF IsObj(rr) THEN Get(rr, "shipping_method")
                                     ELSE Undef
              IN IF Truthy(shipping_method)
                 THEN IF ~IsObj(shipping_method)
                         \/ ~CanRead(Get(shipping_method, "shipping_option"))
                      THEN Throw("TypeError")
                      ELSE IF docs.kind = "throw" THEN docs
                      ELSE WithInvoice(LabelAttachments(docs.value),
                                       attachmentGenerator, invoice)
                 ELSE WithInvoice(<<>>, attachmentGenerator, invoice)
    ELSE Return(<<>>)

\* attachments.map((a) => ({ content, filename, type, disposition, contentId }))
RECURSIVE MessageAttachments(_)
MessageAttachments(as) ==
    IF as = <<>> THEN <<>>
    ELSE <<[content |-> Head(as).base64, filename |-> Head(as).name,
            type |-> Head(as).type, disposition |-> "attachment",
            contentId |-> Head(as).name]>> \o MessageAttachments(Tail(as))

(***************************************************************************)
(* Inputs of the calls and answers of the collaborators.                   *)
(***************************************************************************)
MaxDocs == 2
\* calls served one after another by one service instance
MaxCalls == 2

Payloads ==
    {Obj([id |-> Str("order_1")]),
     Obj([id |-> Str("order_1"), return_id |-> Str("ret_1")]),
     Obj([email |-> Str("user@example.com"), token |-> Str("tok")]),
     Obj([user_email |-> Str("invitee@example.com"), token |-> Str("tok")]),
     Obj([variant_id |-> Str("variant_1"), emails |-> Str("a@example.com")])}

Generators == {Null, EmptyObj, Obj([createReturnInvoice |-> Fn])}

Doc == [base_64 |-> "JVBERi0=", type |-> "application/pdf"]
DocLists == UNION {[1..n -> {Doc}] : n \in 0..MaxDocs}
DocAnswers == {Throw("ProviderError")} \cup {Return(l) : l \in DocLists}
InvoiceAnswers == {Throw("GeneratorError"), Return("SU5WT0lDRQ==")}

\* the world of a stored notification whose return had a shipping method
StoredWorld ==
    [lookup |-> "ok", email |-> "customer@example.com", shipping_method |-> TRUE,
     swap_link_template |-> TRUE, gc_order |-> TRUE]
\* data of stored notifications: a render context as sendNotification
\* returned it, and one kept under dynamic_template_data
StoredData ==
    {Obj([email |-> Str("customer@example.com")]),
     Obj([email |-> Str("customer@example.com"),
          return_request |-> ReturnRequestOf(StoredWorld),
          order |-> OrderOf(StoredWorld)]),
     Obj([dynamic_template_data |->
              Obj([email |-> Str("customer@example.com"),
                   return_request |-> ReturnRequestOf(StoredWorld),
                   order |-> OrderOf(StoredWorld)])])}
ResendEvents ==
    {"order.placed", "order.return_requested", "swap.created", CustomEvent,
     UnmappedEvent}
Notifications ==
    [event_name : ResendEvents, to : {Str("stored@example.com")},
     data : StoredData]
Configs ==
    {EmptyObj, Obj([to |-> Str("override@example.com")]), Obj([to |-> Str("")])}

EmailOptions ==
    {Obj([templateName |-> Str("welcome"), to |-> Str("user@example.com")]),
     Obj([templateName |-> Str("welcome")])}

SendOutcomes == {"resolved", "rejected"}
\* a catch handler that maps the rejection to 'sent'
SendStatus_CatchSent(outcome) == "sent"

\* email.send(...).then(() => 'sent').catch(() => 'failed')
SendStatus(outcome) == IF outcome = "resolved" THEN "sent" ELSE "failed"

(***************************************************************************)
(* sendNotification(event, eventData, attachmentGenerator)                 *)
(***************************************************************************)
Fresh ==
    /\ data' = Undef
    /\ attachments' = <<>>
    /\ sendOptions' = Undef
    /\ settled' = "none"
    /\ outbox' = Undef
    /\ providerDocs' = NotAsked

\* fetchData and fetchAttachments started together instead of in sequence
sendNotification_Begin_Parallel(event, eventData, attachmentGenerator) ==
    /\ pc = "idle"
    /\ served < MaxCalls
    /\ op' = "sendNotification"
    /\ args' = [event |-> event, eventData |-> eventData,
                attachmentGenerator |-> attachmentGenerator]
    /\ templateName' = getTemplateNameForEvent(options_, event)
    /\ Fresh
    /\ thrown' = "none"
    /\ IF ~Truthy(templateName')
       THEN /\ result' = [to |-> Str(""), status |-> "noDataFound",
                          data |-> EmptyObj]
            /\ trace' = <<>>
            /\ pc' = "done"
       ELSE /\ result' = NoResult
            /\ trace' = <<"fetchData", "fetchAttachments">>
            /\ pc' = "fetchData"
    /\ UNCHANGED <<options_, served, priceVars, auxVars>>

sendNotification_Begin(event, eventData, attachmentGenerator) ==
    /\ pc = "idle"
    /\ served < MaxCalls
    /\ op' = "sendNotification"
    /\ args' = [event |-> event, eventData |-> eventData,
                attachmentGenerator |-> attachmentGenerator]
    /\ templateName' = getTemplateNameForEvent(options_, event)
    /\ Fresh
    /\ thrown' = "none"
    /\ IF ~Truthy(templateName')
       THEN /\ result' = [to |-> Str(""), status |-> "noDataFound",
                          data |-> EmptyObj]
            /\ trace' = <<>>
            /\ pc' = "done"
       ELSE /\ result' = NoResult
            /\ trace' = <<"fetchData">>
            /\ pc' = "fetchData"
    /\ UNCHANGED <<options_, served, priceVars, auxVars>>

\* fetchData settles; on success fetchAttachments is invoked
sendNotification_FetchData ==
    /\ pc = "fetchData"
    /\ op = "sendNotification"
    /\ \E w \in Worlds :
         LET c == fetchData(args.event, args.eventData, w)
         IN IF c.kind = "throw"
            THEN /\ thrown' = c.error
                 /\ pc' = "done"
                 /\ UNCHANGED <<data, trace>>
            ELSE /\ data' = c.value
                 /\ trace' = Append(trace, "fetchAttachments")
                 /\ pc' = "fetchAttachments"
                 /\ UNCHANGED thrown
    /\ UNCHANGED <<options_, op, args, templateName, attachments, sendOptions,
                   result, settled, outbox, providerDocs, served, priceVars, auxVars>>

\* sendOptions of sendNotification: message.attachments only when non-empty
SendOptionsOf(template, d, as) ==
    [template |-> template,
     message |-> IF Len(as) > 0
                 THEN [to |-> Get(d, "email"),
                       attachments |-> MessageAttachments(as)]
                 ELSE [to |-> Get(d, "email")],
     locals |-> [data |-> d]]

\* fetchAttachments settles; on success sendOptions is built and email.send
\* is invoked
sendNotification_FetchAttachments ==
    /\ pc = "fetchAttachments"
    /\ op = "sendNotification"
    /\ \E docs \in DocAnswers, invoice \in InvoiceAnswers :
         LET c == fetchAttachments(args.event, data, args.attachmentGenerator,
                                   docs, invoice)
         IN /\ providerDocs' = docs
            /\ IF c.kind = "throw"
               THEN /\ thrown' = c.error
                    /\ pc' = "done"
                    /\ UNCHANGED <<attachments, sendOptions, outbox, trace>>
               ELSE /\ attachments' = c.value
                    /\ IF ~CanRead(data)
                       \* data.email on undefined
                       THEN /\ thrown' = "TypeError"
                            /\ pc' = "done"
                            /\ UNCHANGED <<sendOptions, outbox, trace>>
                       ELSE /\ sendOptions' = SendOptionsOf(templateName, data, c.value)
                            /\ outbox' = sendOptions'
                            /\ trace' = Append(trace, "send")
                            /\ pc' = "send"
                            /\ UNCHANGED thrown
    /\ UNCHANGED <<options_, op, args, templateName, data, result, settled,
                   served, priceVars, auxVars>>

\* delete sendOptions.message.attachments
WithoutAttachments(so) ==
    [so EXCEPT !.message = [to |-> so.message.to]]

\* the result record built after the send has settled
ResultOf(so, status) ==
    [to |-> so.message.to, status |-> status,
     data |-> Or(so.locals.data, EmptyObj)]

\* a send whose settlement never resumes the call
sendNotification_Settle_Lost ==
    /\ pc = "send"
    /\ op = "sendNotification"
    /\ UNCHANGED vars

sendNotification_Settle ==
    /\ pc = "send"
    /\ op = "sendNotification"
    /\ \E outcome \in SendOutcomes :
         /\ settled' = outcome
         /\ sendOptions' = WithoutAttachments(sendOptions)
         /\ result' = ResultOf(sendOptions', SendStatus(outcome))
    /\ pc' = "done"
    /\ UNCHANGED <<options_, op, args, templateName, data, attachments, thrown,
                   trace, outbox, providerDocs, served, priceVars, auxVars>>

(***************************************************************************)
(* resendNotification(notification, config, attachmentGenerator)           *)
(***************************************************************************)
resendNotification_Begin(notification, config, attachmentGenerator) ==
    /\ pc = "idle"
    /\ served < MaxCalls
    /\ op' = "resendNotification"
    /\ args' = [notification |-> notification, config |-> config,
                attachmentGenerator |-> attachmentGenerator]
    /\ templateName' = getTemplateNameForEvent(options_, notification.event_name)
    /\ Fresh
    /\ IF ~Truthy(templateName')
       THEN /\ result' = [to |-> notification.to, status |-> "noTemplateFound",
                          data |-> notification.data]
            /\ thrown' = "none"
            /\ trace' = <<>>
            /\ pc' = "done"
       ELSE /\ result' = NoResult
            /\ IF ~CanRead(config) \/ ~CanRead(notification.data)
               \* config.to or notification.data.dynamic_template_data
               THEN /\ thrown' = "TypeError"
                    /\ trace' = <<>>
                    /\ pc' = "done"
               ELSE /\ thrown' = "none"
                    /\ trace' = <<"fetchAttachments">>
                    /\ pc' = "fetchAttachments"
    /\ UNCHANGED <<options_, served, priceVars, auxVars>>

\* the recipient taken as notification.to || config.to
ResendOptionsOf_StoredFirst(template, notification, config, as) ==
    [template |-> template,
     message |-> [to |-> Or(notification.to, Get(config, "to")),
                  attachments |-> MessageAttachments(as)],
     locals |-> [data |-> notification.data]]

\* sendOptions of resendNotification: message.attachments is always set
ResendOptionsOf(template, notification, config, as) ==
    [template |-> template,
     message |-> [to |-> Or(Get(config, "to"), notification.to),
                  attachments |-> MessageAttachments(as)],
     locals |-> [data |-> notification.data]]

resendNotification_FetchAttachments ==
    /\ pc = "fetchAttachments"
    /\ op = "resendNotification"
    /\ \E docs \in DocAnswers, invoice \in InvoiceAnswers :
         LET c == fetchAttachments(args.notification.event_name,
                                   Get(args.notification.data,
                                       "dynamic_template_data"),
                                   args.attachmentGenerator, docs, invoice)
         IN /\ providerDocs' = docs
            /\ IF c.kind = "throw"
               THEN /\ thrown' = c.error
                    /\ pc' = "done"
                    /\ UNCHANGED <<attachments, sendOptions, outbox, trace>>
               ELSE /\ attachments' = c.value
                    /\ sendOptions' = ResendOptionsOf(templateName, args.notification,
                                                      args.config, c.value)
                    /\ outbox' = sendOptions'
                    /\ trace' = Append(trace, "send")
                    /\ pc' = "send"
                    /\ UNCHANGED thrown
    /\ UNCHANGED <<options_, op, args, templateName, data, result, settled,
                   served, priceVars, auxVars>>

resendNotification_Settle ==
    /\ pc = "send"
    /\ op = "resendNotification"
    /\ \E outcome \in SendOutcomes :
         /\ settled' = outcome
         /\ sendOptions' = WithoutAttachments(sendOptions)
         /\ result' = ResultOf(sendOptions', SendStatus(outcome))
    /\ pc' = "done"
    /\ UNCHANGED <<options_, op, args, templateName, data, attachments, thrown,
                   trace, outbox, providerDocs, served, priceVars, auxVars>>

(***************************************************************************)
(* sendEmail(options)                                                      *)
(***************************************************************************)
sendEmail_Begin(options) ==
    /\ pc = "idle"
    /\ served < MaxCalls
    /\ op' = "sendEmail"
    /\ args' = [options |-> options]
    /\ templateName' = Get(options, "templateName")
    /\ data' = Undef
    /\ attachments' = <<>>
    /\ settled' = "none"
    /\ providerDocs' = NotAsked
    /\ result' = NoResult
    /\ thrown' = "none"
    /\ sendOptions' = [template |-> Get(options, "templateName"),
                       message |-> [to |-> Get(options, "to")],
                       locals |-> [data |-> options]]
    /\ outbox' = sendOptions'
    /\ trace' = <<"send">>
    /\ pc' = "send"
    /\ UNCHANGED <<options_, served, priceVars, auxVars>>

sendEmail_Settle ==
    /\ pc = "send"
    /\ op = "sendEmail"
    /\ \E outcome \in SendOutcomes :
         /\ settled' = outcome
         /\ result' = [to |-> Get(args.options, "to"),
                       status |-> SendStatus(outcome),
                       data |-> args.options]
    /\ pc' = "done"
    /\ UNCHANGED <<options_, op, args, templateName, data, attachments,
                   sendOptions, thrown, trace, outbox, providerDocs, served,
                   priceVars, auxVars>>

(***************************************************************************)
(* The service: constructed once, then calls run one after another.        *)
(***************************************************************************)
\* callers that may have a call in flight at the same time
NumCallers == 2
Callers == 1 .. NumCallers
IdleCall == [op |-> "none", pc |-> "idle", event |-> "", templateName |-> False]

InitAux ==
    /\ aggregate = Undef
    /\ context = NotAsked
    /\ calls = [c \in Callers |-> IdleCall]

InitPrice ==
    /\ amount = 0
    /\ currency = "USD"
    /\ price = ""

InitDispatch ==
    /\ options_ \in {Constructor(o) : o \in ConstructorOptions}
    /\ pc = "idle"
    /\ op = "none"
    /\ args = EmptyFields
    /\ templateName = False
    /\ data = Undef
    /\ attachments = <<>>
    /\ sendOptions = Undef
    /\ result = NoResult
    /\ thrown = "none"
    /\ trace = <<>>
    /\ settled = "none"
    /\ outbox = Undef
    /\ providerDocs = NotAsked
    /\ served = 0

Init == InitDispatch /\ InitPrice /\ InitAux

\* the awaiting caller takes the result or the error; the service is free
\* for the next call
CallReturns ==
    /\ pc = "done"
    /\ pc' = "idle"
    /\ op' = "none"
    /\ args' = EmptyFields
    /\ templateName' = False
    /\ result' = NoResult
    /\ thrown' = "none"
    /\ trace' = <<>>
    /\ Fresh
    /\ served' = served + 1
    /\ UNCHANGED <<options_, priceVars, auxVars>>

Next ==
    \/ \E e \in EventNames, p \in Payloads, g \in Generators :
         sendNotification_Begin(e, p, g)
    \/ sendNotification_FetchData
    \/ sendNotification_FetchAttachments
    \/ sendNotification_Settle
    \/ \E n \in Notifications, c \in Configs, g \in Generators :
         resendNotification_Begin(n, c, g)
    \/ resendNotification_FetchAttachments
    \/ resendNotification_Settle
    \/ \E o \in EmailOptions : sendEmail_Begin(o)
    \/ sendEmail_Settle
    \/ CallReturns

Spec == Init /\ [][Next]_vars

\* every awaited collaborator call eventually settles and resumes its caller
Fairness ==
    /\ WF_vars(sendNotification_FetchData)
    /\ WF_vars(sendNotification_FetchAttachments)
    /\ WF_vars(sendNotification_Settle)
    /\ WF_vars(resendNotification_FetchAttachments)
    /\ WF_vars(resendNotification_Settle)
    /\ WF_vars(sendEmail_Settle)

FairSpec == Init /\ [][Next]_vars /\ Fairness

(***************************************************************************)
(* Price formatter.                                                        *)
(***************************************************************************)
\* zeroDecimalCurrencies of medusa-core-utils
zeroDecimalCurrencies ==
    {"bif", "clp", "djf", "gnf", "jpy", "kmf", "krw", "mga", "pyg", "rwf",
     "ugx", "vnd", "vuv", "xaf", "xof", "xpf"}

\* currency codes the formatter is called with
CurrencyCodes == {"USD", "usd", "EUR", "JPY", "jpy", "KRW", "DKK"}

\* String.prototype.toLowerCase on the currency codes
toLowerCase(code) ==
    CASE code = "USD" -> "usd"
      [] code = "EUR" -> "eur"
      [] code = "JPY" -> "jpy"
      [] code = "KRW" -> "krw"
      [] code = "DKK" -> "dkk"
      [] OTHER -> code

\* humanizeAmount of medusa-core-utils: amount / divisor, kept as a fraction
humanizeAmount(amt, code) ==
    [num |-> amt,
     den |-> IF toLowerCase(code) \in zeroDecimalCurrencies THEN 1 ELSE 100]

Digit(d) ==
    CASE d = 0 -> "0" [] d = 1 -> "1" [] d = 2 -> "2" [] d = 3 -> "3"
      [] d = 4 -> "4" [] d = 5 -> "5" [] d = 6 -> "6" [] d = 7 -> "7"
      [] d = 8 -> "8" [] d = 9 -> "9"

RECURSIVE NatToString(_)
NatToString(n) ==
    IF n < 10 THEN Digit(n) ELSE NatToString(n \div 10) \o Digit(n % 10)

RECURSIVE Pow10(_)
Pow10(d) == IF d = 0 THEN 1 ELSE 10 * Pow10(d - 1)

\* the last d digits of n, zero padded
RECURSIVE Fraction(_, _)
Fraction(n, d) ==
    IF d = 0 THEN "" ELSE Fraction(n \div 10, d - 1) \o Digit(n % 10)

\* Number.prototype.toFixed(digits) of the fraction x
toFixed(x, digits) ==
    LET abs == IF x.num < 0 THEN -x.num ELSE x.num
        scaled == (2 * abs * Pow10(digits) + x.den) \div (2 * x.den)
        sign == IF x.num < 0 /\ scaled > 0 THEN "-" ELSE ""
    IN sign \o NatToString(scaled \div Pow10(digits))
            \o (IF digits = 0 THEN "" ELSE "." \o Fraction(scaled, digits))

humanPrice_(amt, code) ==
    IF amt = 0
    THEN "0.00"
    ELSE toFixed(humanizeAmount(amt, code),
                 IF toLowerCase(code) \in zeroDecimalCurrencies THEN 0 ELSE 2)

MaxAmount == 12
Amounts == (-MaxAmount .. MaxAmount) \cup {100, 250, 1050, 12345}

humanPrice_Call ==
    /\ price = ""
    /\ price' = humanPrice_(amount, currency)
    /\ UNCHANGED <<amount, currency, dispatchVars, auxVars>>

InitPriceInputs ==
    /\ amount \in Amounts
    /\ currency \in CurrencyCodes
    /\ price = ""

InitIdle ==
    /\ options_ = Constructor(EmptyFields)
    /\ pc = "idle"
    /\ op = "none"
    /\ args = EmptyFields
    /\ templateName = False
    /\ data = Undef
    /\ attachments = <<>>
    /\ sendOptions = Undef
    /\ result = NoResult
    /\ thrown = "none"
    /\ trace = <<>>
    /\ settled = "none"
    /\ outbox = Undef
    /\ providerDocs = NotAsked
    /\ served = 0

PriceInit == InitIdle /\ InitPriceInputs /\ InitAux

PriceNext == humanPrice_Call

PriceSpec == PriceInit /\ [][PriceNext]_vars

(***************************************************************************)
(* Discount and gift-card descriptors of orderPlacedData and               *)
(* orderCanceledData.                                                      *)
(***************************************************************************)
\* String.prototype.toUpperCase on the currency codes
toUpperCase(code) ==
    CASE code = "usd" -> "USD"
      [] code = "eur" -> "EUR"
      [] code = "jpy" -> "JPY"
      [] code = "krw" -> "KRW"
      [] code = "dkk" -> "DKK"
      [] OTHER -> code

\* `${discount.rule.value}${type === 'percentage' ? '%' : ` ${currencyCode}`}`
DiscountDescriptor(discount, currencyCode) ==
    NatToString(discount.rule.value)
        \o (IF discount.rule.type = "percentage" THEN "%"
            ELSE " " \o currencyCode)

RECURSIVE DiscountEntries(_, _)
\* order.discounts.map(...)
DiscountEntries(discounts, currencyCode) ==
    IF discounts = <<>> THEN <<>>
    ELSE <<[is_giftcard |-> FALSE, code |-> Head(discounts).code,
            descriptor |-> DiscountDescriptor(Head(discounts), currencyCode)]>>
         \o DiscountEntries(Tail(discounts), currencyCode)

RECURSIVE GiftCardEntries(_, _)
\* order.gift_cards.map(...)
GiftCardEntries(giftCards, currencyCode) ==
    IF giftCards = <<>> THEN <<>>
    ELSE <<[is_giftcard |-> TRUE, code |-> Head(giftCards).code,
            descriptor |-> NatToString(Head(giftCards).value)
                               \o " " \o currencyCode]>>
         \o GiftCardEntries(Tail(giftCards), currencyCode)

\* the discounts, has_discounts and has_gift_cards fields of the context;
\* discounts.concat(giftCards) returns a new array that is not kept
OrderDiscountFields(order) ==
    LET currencyCode == toUpperCase(order.currency_code)
        discounts == DiscountEntries(order.discounts, currencyCode)
        giftCards == GiftCardEntries(order.gift_cards, currencyCode)
        concatenated == discounts \o giftCards
    IN [discounts |-> discounts,
        has_discounts |-> Len(order.discounts),
        has_gift_cards |-> Len(order.gift_cards),
        currency_code |-> order.currency_code]

orderPlacedDiscounts(order) == OrderDiscountFields(order)

orderCanceledDiscounts(order) == OrderDiscountFields(order)

MaxDiscounts == 2
MaxGiftCards == 2
Discounts ==
    {[code |-> "TEN", rule |-> [type |-> "percentage", value |-> 10]],
     [code |-> "FIVE", rule |-> [type |-> "fixed", value |-> 500]]}
GiftCards == {[code |-> "GIFT", value |-> 1000]}
Orders ==
    [currency_code : {"usd", "eur", "jpy"},
     discounts : UNION {[1..n -> Discounts] : n \in 0..MaxDiscounts},
     gift_cards : UNION {[1..n -> GiftCards] : n \in 0..MaxGiftCards}]

orderPlacedData_Discounts ==
    /\ context = NotAsked
    /\ context' = [kind |-> "orderPlacedData",
                   value |-> orderPlacedDiscounts(aggregate)]
    /\ UNCHANGED <<aggregate, calls, dispatchVars, priceVars>>

orderCanceledData_Discounts ==
    /\ context = NotAsked
    /\ context' = [kind |-> "orderCanceledData",
                   value |-> orderCanceledDiscounts(aggregate)]
    /\ UNCHANGED <<aggregate, calls, dispatchVars, priceVars>>

OrderInit ==
    /\ InitIdle
    /\ InitPrice
    /\ aggregate \in Orders
    /\ context = NotAsked
    /\ calls = [c \in Callers |-> IdleCall]

OrderNext == orderPlacedData_Discounts \/ orderCanceledData_Discounts

OrderSpec == OrderInit /\ [][OrderNext]_vars

(***************************************************************************)
(* Return / additional partition of swapCreatedData and swapReceivedData.  *)
(* A cart line carries the totals getLineItemTotals answers for it.        *)
(***************************************************************************)
\* decoratedItems.reduce: is_return && variant_id adds -1 * total
SwapCreatedReturnTotal(items) ==
    LET F[i \in 0 .. Len(items)] ==
            IF i = 0 THEN 0
            ELSE IF items[i].is_return /\ Truthy(items[i].variant_id)
                 THEN F[i - 1] + (-1) * items[i].totals.total
                 ELSE F[i - 1]
    IN F[Len(items)]

\* decoratedItems.reduce: !is_return adds total
SwapCreatedAdditionalTotal(items) ==
    LET F[i \in 0 .. Len(items)] ==
            IF i = 0 THEN 0
            ELSE IF ~items[i].is_return
                 THEN F[i - 1] + items[i].totals.total
                 ELSE F[i - 1]
    IN F[Len(items)]

\* decoratedItems.reduce: is_return adds -1 * (subtotal + tax_total)
SwapReceivedReturnTotal(items) ==
    LET F[i \in 0 .. Len(items)] ==
            IF i = 0 THEN 0
            ELSE IF items[i].is_return
                 THEN F[i - 1]
                      + (-1) * (items[i].totals.subtotal + items[i].totals.tax_total)
                 ELSE F[i - 1]
    IN F[Len(items)]

\* decoratedItems.reduce: !is_return adds subtotal + tax_total
SwapReceivedAdditionalTotal(items) ==
    LET F[i \in 0 .. Len(items)] ==
            IF i = 0 THEN 0
            ELSE IF ~items[i].is_return
                 THEN F[i - 1] + items[i].totals.subtotal
                      + items[i].totals.tax_total
                 ELSE F[i - 1]
    IN F[Len(items)]

\* `${this.humanPrice_(amount, currencyCode)} ${currencyCode}`
PriceWithCurrency(amt, currencyCode) ==
    humanPrice_(amt, currencyCode) \o " " \o currencyCode

swapCreatedTotals(swap) ==
    LET currencyCode == toUpperCase(swap.order.currency_code)
        returnTotal == SwapCreatedReturnTotal(swap.cart.items)
        additionalTotal == SwapCreatedAdditionalTotal(swap.cart.items)
    IN [returnTotal |-> returnTotal,
        additionalTotal |-> additionalTotal,
        return_total |-> PriceWithCurrency(returnTotal, currencyCode),
        additional_total |-> PriceWithCurrency(additionalTotal, currencyCode)]

swapReceivedTotals(swap) ==
    LET currencyCode == toUpperCase(swap.order.currency_code)
        returnTotal == SwapReceivedReturnTotal(swap.cart.items)
        additionalTotal == SwapReceivedAdditionalTotal(swap.cart.items)
    IN [returnTotal |-> returnTotal,
        additionalTotal |-> additionalTotal,
        return_total |-> PriceWithCurrency(returnTotal, currencyCode),
        additional_total |-> PriceWithCurrency(additionalTotal, currencyCode)]

MaxCartLines == 2
LineTotals ==
    {[subtotal |-> 1200, tax_total |-> 300, total |-> 1500],
     [subtotal |-> 2000, tax_total |-> 500, total |-> 2500]}
CartLines ==
    [is_return : BOOLEAN, variant_id : {Str("variant_1"), Null},
     totals : LineTotals]
Swaps ==
    [order : [currency_code : {"usd", "jpy"}],
     cart : [items : UNION {[1..n -> CartLines] : n \in 0..MaxCartLines}]]

swapCreatedData_Totals ==
    /\ context = NotAsked
    /\ context' = [kind |-> "swapCreatedData",
                   value |-> swapCreatedTotals(aggregate)]
    /\ UNCHANGED <<aggregate, calls, dispatchVars, priceVars>>

swapReceivedData_Totals ==
    /\ context = NotAsked
    /\ context' = [kind |-> "swapReceivedData",
                   value |-> swapReceivedTotals(aggregate)]
    /\ UNCHANGED <<aggregate, calls, dispatchVars, priceVars>>

SwapInit ==
    /\ InitIdle
    /\ InitPrice
    /\ aggregate \in Swaps
    /\ context = NotAsked
    /\ calls = [c \in Callers |-> IdleCall]

SwapNext == swapCreatedData_Totals \/ swapReceivedData_Totals

SwapSpec == SwapInit /\ [][SwapNext]_vars

(***************************************************************************)
(* Calls in flight together.  Every await is a point where another call of *)
(* the same service instance may run; calls[c] keeps, for caller c, the    *)
(* method, the stage it awaits, the event and the template it resolved.    *)
(* The only state the calls share is this.options_.                        *)
(***************************************************************************)
ConcurrentEvents == {"order.placed", CustomEvent, UnmappedEvent}
ConcurrentOps == {"sendNotification", "resendNotification", "sendEmail"}

\* the stage a call awaits first
FirstStage(o, template) ==
    CASE o = "sendEmail" -> "send"
      [] o = "sendNotification" ->
             IF Truthy(template) THEN "fetchData" ELSE "done"
      [] o = "resendNotification" ->
             IF Truthy(template) THEN "fetchAttachments" ELSE "done"

\* the stages that may follow when the awaited one settles: the next one, or
\* the end of the call when it raised
NextStages(stage) ==
    CASE stage = "fetchData" -> {"fetchAttachments", "done"}
      [] stage = "fetchAttachments" -> {"send", "done"}
      [] stage = "send" -> {"done"}

\* a lookup that caches its answer in the shared template map
Call_Begin_Memoize(c, o, e) ==
    /\ calls[c].pc = "idle"
    /\ LET template == IF o = "sendEmail" THEN Str("welcome")
                       ELSE getTemplateNameForEvent(options_, e)
       IN /\ calls' = [calls EXCEPT ![c] =
                          [op |-> o, pc |-> FirstStage(o, template),
                           event |-> e, templateName |-> template]]
          /\ options_' = [options_ EXCEPT !["templateMap"] =
                             [n \in (DOMAIN @) \cup {e} |->
                                 IF n \in DOMAIN @ THEN @[n] ELSE "tpl"]]
    /\ UNCHANGED <<pc, op, args, templateName, data, attachments, sendOptions,
                   result, thrown, trace, settled, outbox, providerDocs,
                   served, priceVars, aggregate, context>>

\* caller c starts a call; the template is read from the shared options
Call_Begin(c, o, e) ==
    /\ calls[c].pc = "idle"
    /\ LET template == IF o = "sendEmail" THEN Str("welcome")
                       ELSE getTemplateNameForEvent(options_, e)
       IN calls' = [calls EXCEPT ![c] =
                       [op |-> o, pc |-> FirstStage(o, template),
                        event |-> e, templateName |-> template]]
    /\ UNCHANGED <<dispatchVars, priceVars, aggregate, context>>

\* the stage caller c awaits settles
Call_Settle(c) ==
    /\ calls[c].pc \in {"fetchData", "fetchAttachments", "send"}
    /\ \E stage \in NextStages(calls[c].pc) :
         calls' = [calls EXCEPT ![c].pc = stage]
    /\ UNCHANGED <<dispatchVars, priceVars, aggregate, context>>

\* caller c takes the result or the error
Call_Return(c) ==
    /\ calls[c].pc = "done"
    /\ calls' = [calls EXCEPT ![c] = IdleCall]
    /\ UNCHANGED <<dispatchVars, priceVars, aggregate, context>>

ConcurrentInit == InitDispatch /\ InitPrice /\ InitAux

ConcurrentNext ==
    \/ \E c \in Callers, o \in ConcurrentOps, e \in ConcurrentEvents :
         Call_Begin(c, o, e)
    \/ \E c \in Callers : Call_Settle(c)
    \/ \E c \in Callers : Call_Return(c)

ConcurrentSpec == ConcurrentInit /\ [][ConcurrentNext]_vars

(***************************************************************************)
(* Locale resolver.  answer is the completion of cartService_.retrieve.    *)
(***************************************************************************)
\* a catch block that raises the error again
extractLocale_Rethrow(fromOrder, answer) ==
    IF ~CanRead(fromOrder) THEN Throw("TypeError")
    ELSE IF Truthy(Get(fromOrder, "cart_id"))
    THEN IF answer.kind = "throw" THEN answer
         ELSE IF ~CanRead(answer.value) THEN Throw("TypeError")
         ELSE LET cart == answer.value
              IN IF Truthy(Get(cart, "context"))
                    /\ Truthy(Get(Get(cart, "context"), "locale"))
                 THEN Return(Get(Get(cart, "context"), "locale"))
                 ELSE Return(Null)
    ELSE Return(Null)

extractLocale(fromOrder, answer) ==
    \* fromOrder.cart_id is read outside the try block
    IF ~CanRead(fromOrder) THEN Throw("TypeError")
    ELSE IF Truthy(Get(fromOrder, "cart_id"))
    THEN \* catch (err): the rejection of retrieve, or the TypeError of
         \* reading context of a missing cart, gives null
         IF answer.kind = "throw" THEN Return(Null)
         ELSE IF ~CanRead(answer.value) THEN Return(Null)
         ELSE LET cart == answer.value
              IN IF Truthy(Get(cart, "context"))
                    /\ Truthy(Get(Get(cart, "context"), "locale"))
                 THEN Return(Get(Get(cart, "context"), "locale"))
                 ELSE Return(Null)
    ELSE Return(Null)

Locales == {"de-DE", "en-US", "da-DK", "fr-FR"}
LocaleOrders ==
    {Obj([id |-> Str("order_1"), cart_id |-> Str("cart_1")]),
     Obj([id |-> Str("order_1"), cart_id |-> Str("cart_2")]),
     Obj([id |-> Str("order_1"), cart_id |-> Str("")]),
     Obj([id |-> Str("order_1"), cart_id |-> Null]),
     Obj([id |-> Str("order_1")])}
CartAnswers ==
    {Throw("DomainLookupError"), Throw("ConnectionError"), Return(Undef),
     Return(Obj([id |-> Str("cart_1")])),
     Return(Obj([id |-> Str("cart_1"), context |-> Null])),
     Return(Obj([id |-> Str("cart_1"), context |-> EmptyObj])),
     Return(Obj([id |-> Str("cart_1"), context |-> Obj([locale |-> Str("")])]))}
    \cup {Return(Obj([id |-> Str("cart_1"),
                      context |-> Obj([locale |-> Str(l)])])) : l \in Locales}

extractLocale_Call ==
    /\ context = NotAsked
    /\ context' = extractLocale(aggregate.order, aggregate.cart)
    /\ UNCHANGED <<aggregate, calls, dispatchVars, priceVars>>

LocaleInit ==
    /\ InitIdle
    /\ InitPrice
    /\ aggregate \in [order : LocaleOrders, cart : CartAnswers]
    /\ context = NotAsked
    /\ calls = [c \in Callers |-> IdleCall]

LocaleSpec == LocaleInit /\ [][extractLocale_Call]_vars

(***************************************************************************)
(* Return shipping total.  A JavaScript Number is an IEEE 754 binary64     *)
(* value: /, * and + give the exact result rounded to the nearest value    *)
(* with a 53-bit significand, ties to even.  A non-negative Number is      *)
(* [m, e] with value m * 2^e, m a little-endian sequence of 14-bit limbs   *)
(* whose last limb is not 0 (<<>> is zero).  Amounts are far from the      *)
(* exponent limits, so e is unbounded.                                     *)
(***************************************************************************)
MantissaBits == 53
LimbBits == 14
Radix == 2 ^ LimbBits
\* bits kept below the quotient of a division before it is rounded
DivisionScale == 70

Trim(m) ==
    LET nz == {i \in 1 .. Len(m) : m[i] # 0}
    IN IF nz = {} THEN <<>>
       ELSE SubSeq(m, 1, CHOOSE i \in nz : \A j \in nz : j <= i)

LimbAt(m, i) == IF 1 <= i /\ i <= Len(m) THEN m[i] ELSE 0

\* a big number below Radix^3 as an integer
ToNat(m) ==
    LimbAt(m, 1) + (Radix * LimbAt(m, 2)) + (Radix * Radix * LimbAt(m, 3))

BitLength(m) ==
    IF m = <<>> THEN 0
    ELSE LimbBits * (Len(m) - 1)
         + CHOOSE j \in 1 .. LimbBits :
             (2 ^ (j - 1)) <= m[Len(m)] /\ m[Len(m)] < (2 ^ j)

\* bit i of m, bit 1 the lowest
BitOf(m, i) ==
    (LimbAt(m, ((i - 1) \div LimbBits) + 1) \div (2 ^ ((i - 1) % LimbBits))) % 2

ShiftLeft(m, s) ==
    LET q == s \div LimbBits
        r == s % LimbBits
    IN Trim([i \in 1 .. Len(m) + q + 1 |->
               ((LimbAt(m, i - q) * (2 ^ r)) % Radix)
               + ((LimbAt(m, i - q - 1) * (2 ^ r)) \div Radix)])

ShiftRight(m, s) ==
    LET q == s \div LimbBits
        r == s % LimbBits
    IN Trim([i \in 1 .. Len(m) - q |->
               (LimbAt(m, i + q) \div (2 ^ r))
               + ((LimbAt(m, i + q + 1) % (2 ^ r)) * (2 ^ (LimbBits - r)))])

BigAdd(a, b) ==
    LET n == IF Len(a) < Len(b) THEN Len(b) ELSE Len(a)
        carry[i \in 0 .. n] ==
            IF i = 0 THEN 0
            ELSE (LimbAt(a, i) + LimbAt(b, i) + carry[i - 1]) \div Radix
    IN Trim([i \in 1 .. n + 1 |->
               (LimbAt(a, i) + LimbAt(b, i) + carry[i - 1]) % Radix])

\* b times one limb x
MulLimb(b, x) ==
    LET carry[i \in 0 .. Len(b)] ==
            IF i = 0 THEN 0 ELSE (b[i] * x + carry[i - 1]) \div Radix
    IN Trim([i \in 1 .. Len(b) + 1 |->
               (LimbAt(b, i) * x + carry[i - 1]) % Radix])

BigMul(a, b) ==
    LET P[i \in 0 .. Len(a)] ==
            IF i = 0 THEN <<>>
            ELSE BigAdd(P[i - 1], ShiftLeft(MulLimb(b, a[i]), LimbBits * (i - 1)))
    IN P[Len(a)]

\* quotient and remainder of a by a divisor d below 2^17, from the top limb
BigDiv(a, d) ==
    LET n == Len(a)
        rem[i \in 0 .. n] ==
            IF i = 0 THEN 0 ELSE (rem[i - 1] * Radix + a[n - i + 1]) % d
    IN [q |-> Trim([j \in 1 .. n |-> (rem[n - j] * Radix + a[j]) \div d]),
        r |-> rem[n]]

\* the Number nearest to m * 2^e (plus a positive rest below the last bit
\* of m when sticky), ties to even
RoundNearestEven(m, e, sticky) ==
    IF BitLength(m) <= MantissaBits THEN [m |-> m, e |-> e]
    ELSE LET d == BitLength(m) - MantissaBits
             kept == ShiftRight(m, d)
             below == sticky \/ \E i \in 1 .. d - 1 : BitOf(m, i) = 1
             up == BitOf(m, d) = 1 /\ (below \/ BitOf(kept, 1) = 1)
         IN [m |-> IF up THEN BigAdd(kept, <<1>>) ELSE kept, e |-> e + d]

\* an integer below Radix^3 as a Number
FromInt(n) ==
    [m |-> Trim(<<n % Radix, (n \div Radix) % Radix, n \div (Radix * Radix)>>),
     e |-> 0]

\* a / d for a small integer d
NumberDivide(a, d) ==
    LET qr == BigDiv(ShiftLeft(a.m, DivisionScale), d)
    IN RoundNearestEven(qr.q, a.e - DivisionScale, qr.r # 0)

\* a * b
NumberMultiply(a, b) ==
    RoundNearestEven(BigMul(a.m, b.m), a.e + b.e, FALSE)

\* a + b
NumberAdd(a, b) ==
    LET e == IF a.e < b.e THEN a.e ELSE b.e
    IN RoundNearestEven(BigAdd(ShiftLeft(a.m, a.e - e), ShiftLeft(b.m, b.e - e)),
                        e, FALSE)

\* Math.round(a): floor(a + 1/2), computed exactly
MathRound(a) ==
    IF a.e >= 0 THEN ToNat(ShiftLeft(a.m, a.e))
    ELSE ToNat(ShiftRight(BigAdd(a.m, ShiftLeft(<<1>>, (0 - a.e) - 1)),
                          0 - a.e))

\* tax_lines.reduce((acc, next) => Math.round(acc + base * (next.rate / 100)), 0)
ShippingTaxTotal(base, tax_lines) ==
    LET F[i \in 0 .. Len(tax_lines)] ==
            IF i = 0 THEN 0
            ELSE MathRound(
                   NumberAdd(FromInt(F[i - 1]),
                             NumberMultiply(FromInt(base),
                                            NumberDivide(FromInt(tax_lines[i].rate),
                                                         100))))
    IN F[Len(tax_lines)]

returnRequestedShippingTotal(returnRequest) ==
    IF returnRequest.shipping_method # Null
    THEN LET base == returnRequest.shipping_method.price
         IN base + ShippingTaxTotal(base, returnRequest.shipping_method.tax_lines)
    ELSE 0

MaxBase == 50
MaxTaxLines == 2
TaxRates == {3, 25, 29}
ReturnRequests ==
    {[shipping_method |-> Null]}
    \cup [shipping_method :
            [price : 0 .. MaxBase,
             tax_lines : UNION {[1 .. n -> [rate : TaxRates]] :
                                  n \in 0 .. MaxTaxLines}]]

returnRequestedData_ShippingTotal ==
    /\ context = NotAsked
    /\ context' = [kind |-> "returnRequestedData",
                   value |-> [shippingTotal |->
                                returnRequestedShippingTotal(aggregate)]]
    /\ UNCHANGED <<aggregate, calls, dispatchVars, priceVars>>

ShippingInit ==
    /\ InitIdle
    /\ InitPrice
    /\ aggregate \in ReturnRequests
    /\ context = NotAsked
    /\ calls = [c \in Callers |-> IdleCall]

ShippingSpec == ShippingInit /\ [][returnRequestedData_ShippingTotal]_vars

(***************************************************************************)
(* Properties.                                                             *)
(***************************************************************************)
IsDispatch == op \in {"sendNotification", "resendNotification"}
HasTemplate == Truthy(templateName)
Returned == pc = "done" /\ result # NoResult

\* the event and the data the attachment resolver of the running call gets
AttachmentEvent ==
    IF op = "sendNotification" THEN args.event ELSE args.notification.event_name
AttachmentData ==
    IF op = "sendNotification" THEN data
    ELSE Get(args.notification.data, "dynamic_template_data")
HasShippingMethod ==
    Truthy(Get(Get(AttachmentData, "return_request"), "shipping_method"))
\* fetchAttachments of the running dispatch has returned its list
AttachmentsResolved == IsDispatch /\ (pc = "send" \/ Returned) /\ HasTemplate

RECURSIVE CountNamed(_, _)
CountNamed(as, name) ==
    IF as = <<>> THEN 0
    ELSE (IF Head(as).name = name THEN 1 ELSE 0) + CountNamed(Tail(as), name)

\* C1: a first send for an event without a template returns status
\* noTemplateFound with empty to and empty data, and invokes no assembler,
\* attachment resolver or transport.
C1_NoTemplateFirstSend ==
    (op = "sendNotification" /\ pc = "done" /\ ~HasTemplate) =>
        /\ result # NoResult
        /\ result.status = "noTemplateFound"
        /\ result.to = Str("")
        /\ result.data = EmptyObj
        /\ trace = <<>>
        /\ outbox = Undef

\* C2: when the mail send rejects, the call raises nothing and returns a
\* record with status failed whose to and data are those handed to the send.
C2_DeliveryFailureSwallowed ==
    settled = "rejected" =>
        /\ pc = "done"
        /\ thrown = "none"
        /\ result # NoResult
        /\ result.status = "failed"
        /\ result.to = outbox.message.to
        /\ result.data = outbox.locals.data

C2_Witness ==
    /\ settled = "rejected"
    /\ op = "resendNotification"
    /\ result # NoResult
    /\ result.status = "failed"
    /\ Len(outbox.message.attachments) > 0

\* C3: a first send of a recognized event with a template yields a result
\* whose status is one of the four values, with an email field in data when
\* the status is sent (a failed domain lookup aside).
C3_RecognizedEventResult ==
    (/\ op = "sendNotification" /\ pc = "done" /\ HasTemplate
     /\ args.event \in RecognizedEvents /\ thrown # "DomainLookupError") =>
        /\ result # NoResult
        /\ result.status \in {"sent", "failed", "noTemplateFound", "noDataFound"}
        /\ (result.status = "sent" =>
              IsObj(result.data) /\ "email" \in DOMAIN result.data.fields)

\* C4: the mail send of a dispatch is only ever invoked with a non-empty
\* recipient address.
C4_RecipientNonEmpty ==
    (IsDispatch /\ outbox # Undef) =>
        /\ outbox.message.to.type = "string"
        /\ outbox.message.to.value # ""

\* C5: a resend that returns a record for an event with a template returns
\* config.to as to when an override is given and the stored notification.to
\* otherwise, and the stored notification.data as data.
C5_ResendRecipient ==
    (op = "resendNotification" /\ Returned /\ HasTemplate) =>
        /\ result.to = IF Truthy(Get(args.config, "to"))
                       THEN Get(args.config, "to")
                       ELSE args.notification.to
        /\ result.data = args.notification.data

C5_Witness ==
    /\ op = "resendNotification" /\ Returned /\ HasTemplate
    /\ Truthy(Get(args.config, "to"))
    /\ Get(args.config, "to") # args.notification.to
    /\ result.to = Get(args.config, "to")

\* C6: a dispatch ends without a result record only when a domain-service
\* lookup threw.
C6_AlwaysResult ==
    (IsDispatch /\ pc = "done") =>
        result # NoResult \/ thrown = "DomainLookupError"

\* C7: a failure of the document retrieval or of the invoice generator never
\* ends the dispatch.
C7_AttachmentFailureTolerated ==
    (IsDispatch /\ pc = "done") =>
        thrown \notin {"ProviderError", "GeneratorError"}

\* C8 as stated: with a shipping method the resolved list has at least one
\* return-label; without shipping method and capability it is empty; for
\* every other event it is empty.
C8_AtLeastOneLabel ==
    AttachmentsResolved =>
        IF AttachmentEvent \in {"order.return_requested", "swap.created"}
        THEN /\ HasShippingMethod => CountNamed(attachments, "return-label") >= 1
             /\ (~HasShippingMethod
                   /\ ~HasInvoiceCapability(args.attachmentGenerator))
                  => attachments = <<>>
        ELSE attachments = <<>>

\* C8 amended: with a shipping method the resolved list has one return-label
\* per document the provider returned; without shipping method and
\* capability it is empty; for every other event it is empty.
C8_LabelPerDocument ==
    AttachmentsResolved =>
        IF AttachmentEvent \in {"order.return_requested", "swap.created"}
        THEN /\ HasShippingMethod =>
                  /\ providerDocs.kind = "return"
                  /\ CountNamed(attachments, "return-label")
                        = Len(providerDocs.value)
             /\ ~HasShippingMethod => CountNamed(attachments, "return-label") = 0
             /\ (~HasShippingMethod
                   /\ ~HasInvoiceCapability(args.attachmentGenerator))
                  => attachments = <<>>
        ELSE attachments = <<>>

C8_Witness ==
    /\ AttachmentsResolved
    /\ AttachmentEvent = "order.return_requested"
    /\ HasShippingMethod
    /\ Len(providerDocs.value) = MaxDocs
    /\ CountNamed(attachments, "return-label") = MaxDocs
    /\ CountNamed(attachments, "invoice") = 1

\* C9: a first send of an event outside the recognized kinds that has a
\* template uses the payload as render context and returns it as data, with
\* the payload's email as to.
C9_UnknownEventPassThrough ==
    (op = "sendNotification" /\ HasTemplate
     /\ args.event \notin RecognizedEvents) =>
        /\ pc \in {"fetchAttachments", "send", "done"} => data = args.eventData
        /\ pc = "send" => outbox.locals.data = args.eventData
        /\ pc = "done" =>
              /\ result # NoResult
              /\ result.data = args.eventData
              /\ result.to = Get(args.eventData, "email")

C9_Witness ==
    /\ op = "sendNotification" /\ Returned /\ HasTemplate
    /\ args.event = CustomEvent
    /\ result.status = "sent"
    /\ result.data = args.eventData
    /\ result.to = Str("user@example.com")

\* C10: humanPrice_ formats an integer amount with 0 decimals for a
\* zero-decimal currency and 2 decimals otherwise, an amount of zero included.
C10_PriceDecimals ==
    price # "" =>
        price = toFixed(humanizeAmount(amount, currency),
                        IF toLowerCase(currency) \in zeroDecimalCurrencies
                        THEN 0 ELSE 2)

\* C11: in the order-placed and order-canceled contexts a percentage discount
\* renders as "{value}%" and a fixed discount as the formatted price of its
\* value followed by the upper-cased currency code (10 percent: "10%", fixed
\* 500 in USD: "5.00 USD").
C11_DiscountDescriptor ==
    context # NotAsked =>
        \A i \in 1 .. Len(aggregate.discounts) :
            LET d == aggregate.discounts[i]
                code == toUpperCase(aggregate.currency_code)
            IN /\ i <= Len(context.value.discounts)
               /\ context.value.discounts[i].descriptor =
                    IF d.rule.type = "percentage"
                    THEN NatToString(d.rule.value) \o "%"
                    ELSE humanPrice_(d.rule.value, code) \o " " \o code

\* C16: in the order-placed and order-canceled contexts the discounts list
\* has, for every gift card of the order, an entry flagged is_giftcard with
\* the card's code and descriptor "{value} {CURRENCY}", and the entries built
\* from order discounts are not flagged.
C16_GiftCardEntries ==
    context # NotAsked =>
        LET code == toUpperCase(aggregate.currency_code)
            listed == context.value.discounts
        IN /\ \A g \in 1 .. Len(aggregate.gift_cards) :
                \E i \in 1 .. Len(listed) :
                    /\ listed[i].is_giftcard
                    /\ listed[i].code = aggregate.gift_cards[g].code
                    /\ listed[i].descriptor =
                         NatToString(aggregate.gift_cards[g].value)
                             \o " " \o code
           /\ \A i \in 1 .. Len(aggregate.discounts) :
                /\ i <= Len(listed)
                /\ listed[i].code = aggregate.discounts[i].code
                /\ ~listed[i].is_giftcard

\* the total of a cart line as the assembler that ran reads it
LineTotalIn(kind, line) ==
    IF kind = "swapCreatedData" THEN line.totals.total
    ELSE line.totals.subtotal + line.totals.tax_total

RECURSIVE SumOfLines(_, _)
SumOfLines(kind, items) ==
    IF items = <<>> THEN 0
    ELSE LineTotalIn(kind, Head(items)) + SumOfLines(kind, Tail(items))

\* C12: for a swap cart of two lines, one flagged is_return and one not, in
\* either order and whether or not the flagged line has a variant_id,
\* return_total is the negated total of the flagged line and additional_total
\* the total of the other line; every cart line counts in exactly one sum.
C12_SwapPartition ==
    context # NotAsked =>
        LET items == aggregate.cart.items
            code == toUpperCase(aggregate.order.currency_code)
            kind == context.kind
        IN /\ context.value.additionalTotal - context.value.returnTotal
                = SumOfLines(kind, items)
           /\ (Len(items) = 2 /\ items[1].is_return # items[2].is_return) =>
                LET flagged == IF items[1].is_return THEN items[1] ELSE items[2]
                    other == IF items[1].is_return THEN items[2] ELSE items[1]
                IN /\ context.value.return_total =
                        PriceWithCurrency(-LineTotalIn(kind, flagged), code)
                   /\ context.value.additional_total =
                        PriceWithCurrency(LineTotalIn(kind, other), code)

Stages == <<"fetchData", "fetchAttachments", "send">>
IsPrefix(p, q) == Len(p) <= Len(q) /\ \A i \in 1 .. Len(p) : p[i] = q[i]

\* C13: in a first send the stages are invoked in the order data assembly,
\* attachment resolution, mail send, each at most once and only after a
\* template was resolved; the stage awaited is the last one invoked, so no
\* two stages are in progress together; the result record exists only after
\* the send has settled.
C13_StageOrder ==
    op = "sendNotification" =>
        /\ IsPrefix(trace, Stages)
        /\ trace # <<>> => HasTemplate
        /\ pc \in {"fetchData", "fetchAttachments", "send"} =>
              /\ trace # <<>>
              /\ trace[Len(trace)] = pc
              /\ result = NoResult
              /\ settled = "none"
        /\ (result # NoResult /\ HasTemplate) =>
              /\ pc = "done"
              /\ trace = Stages
              /\ settled # "none"

C13_Witness ==
    /\ op = "sendNotification" /\ Returned
    /\ trace = Stages
    /\ settled = "resolved"
    /\ result.status = "sent"
    /\ Len(attachments) > 0

\* C14 as stated: a first send that has ended has reached Sent or Failed.
C14_EndsSentOrFailed ==
    (op = "sendNotification" /\ pc = "done") =>
        /\ result # NoResult
        /\ result.status \in {"sent", "failed"}

\* C14 amended: a first send that has begun eventually ends, with a record of
\* status sent or failed, with the no-template record, or with the error of
\* a failed stage raised to its caller; it never stays in an intermediate
\* state.
C14_DispatchEnds ==
    (op = "sendNotification" /\ pc # "idle")
        ~> (/\ op = "sendNotification" /\ pc = "done"
            /\ \/ thrown # "none"
               \/ /\ result # NoResult
                  /\ result.status \in {"sent", "failed", "noDataFound"})

C14_Witness ==
    /\ op = "sendNotification" /\ Returned
    /\ trace = Stages
    /\ settled = "rejected"
    /\ result.status = "failed"

HasContextLocale ==
    /\ "cart_id" \in DOMAIN aggregate.order.fields
    /\ aggregate.order.fields.cart_id \notin {Null, Str("")}
    /\ aggregate.cart.kind = "return"
    /\ \E l \in Locales :
         Get(Get(aggregate.cart.value, "context"), "locale") = Str(l)

\* C17: extractLocale never raises; it returns the cart's context locale when
\* the order has a cart_id, the cart retrieval succeeds and the cart has a
\* context locale, and null otherwise.
C17_LocaleNonFatal ==
    context # NotAsked =>
        /\ context.kind = "return"
        /\ context.value =
             IF HasContextLocale
             THEN aggregate.cart.value.fields.context.fields.locale
             ELSE Null

C17_Witness ==
    /\ context = Return(Null)
    /\ Truthy(Get(aggregate.order, "cart_id"))
    /\ aggregate.cart.kind = "throw"

\* the sum of round(base * rate / 100) over the tax lines, each rounded to
\* the nearest integer in exact arithmetic
SumOfContributions(base, tax_lines) ==
    LET F[i \in 0 .. Len(tax_lines)] ==
            IF i = 0 THEN 0
            ELSE F[i - 1] + ((2 * base * tax_lines[i].rate + 100) \div 200)
    IN F[Len(tax_lines)]

\* C18: with a shipping method of integer price base and tax lines of rates
\* r1..rn the shipping total is base plus the sum of round(base * ri / 100);
\* with no shipping method it is 0.
C18_ShippingTotalRounding ==
    context # NotAsked =>
        context.value.shippingTotal =
            IF aggregate.shipping_method = Null THEN 0
            ELSE aggregate.shipping_method.price
                 + SumOfContributions(aggregate.shipping_method.price,
                                      aggregate.shipping_method.tax_lines)

====
